---- MODULE Spec2Model ----
(***************************************************************************)
(* Inventory reservation and order settlement of the e-commerce backend:   *)
(* the stock ledger (services/inventory_services.py), the order service    *)
(* (services/order_services.py) and the inventory controller               *)
(* (controllers/inventory_controller.py).                                  *)
(*                                                                         *)
(* The store is the committed content of the relational database.  A       *)
(* handler that raises before its db.commit() leaves the store as it was:  *)
(* its session is discarded with the request.                              *)
(*                                                                         *)
(* The cart and the catalog belong to other subsystems, which may rewrite  *)
(* them between any two requests: create_order_from_cart takes the cart it *)
(* finds and the set of active products as inputs, and the cart lines it   *)
(* leaves behind are recorded with its result.                             *)
(***************************************************************************)
EXTENDS Integers, Sequences, FiniteSets, TLC

\* ------------------------------------------------------------------ bounds
NumProducts == 1
NumSessions == 3
MaxPrice == 260
MaxStock == 2
MaxQty == 2
MaxCartLen == 2
MaxOrders == 2
CounterCap == 2

Products == 1..NumProducts
Users == {"u1"}
OrderIds == 1..MaxOrders
Sessions == 1..NumSessions
StockValues == 0..MaxStock
\* quantities a cart line can carry: the non-positive ones are the invalid lines
CartQuantities == {0 - 1} \cup (0..MaxQty)
CartLines == [product_id : Products, quantity : CartQuantities]
CartContents == UNION {[1..n -> CartLines] : n \in 0..MaxCartLen}
NoCart == [exists |-> FALSE, items |-> <<>>]
\* the cart rows create_order_from_cart can find for a user
Carts == {NoCart} \cup {[exists |-> TRUE, items |-> c] : c \in CartContents}
\* the products whose catalog status is "active"
ActiveSets == SUBSET Products

\* ------------------------------------------------------------------ state
VARIABLES
    inventory,  \* product_id -> inventory row (exists = FALSE: no row)
    orders,     \* the orders table; an order's id is its index
    last,       \* the last request and how it ended (observation only)
    session,    \* the reservation requests in flight, each in its own
                \* database session
    row_lock,   \* the session holding the inventory row's lock, 0 when free
    lock_order, \* the sessions in the order they took the row's lock
    priced,     \* the amounts create_order_from_cart computed for an order
    cache,      \* Redis: user_id -> the entry under user_orders:{user_id}
    redis_up,   \* whether Redis answers
    history,    \* the orders that have been PAID, SHIPPED or DELIVERED
                \* (observation only, kept when history.on)
    txn,        \* the handlers in flight that run as steps of their own
                \* transaction, each with what it has read and written so far
    locks       \* product_id -> the transaction holding the inventory row's
                \* FOR UPDATE lock, 0 when free

vars == <<inventory, orders, last, session, row_lock, lock_order, priced, cache,
          redis_up, history, txn, locks>>
tvars == <<txn, locks>>
cvars == <<session, row_lock, lock_order, tvars>>
\* what no ledger or order handler writes
fvars == <<cvars, priced, redis_up>>
\* what no reservation session writes
ovars == <<priced, cache, redis_up, history, tvars>>

NoInventory == [exists |-> FALSE, total_stock |-> 0, available_stock |-> 0, reserved_stock |-> 0]

\* op: the handler; sarg: its status argument; err: the error it raised (""
\* when it returned); prev: the status its order had before it; skip: the
\* skip rollback_stock logged; has_cart, left: whether the user has a cart
\* after create_order_from_cart, and how many lines it holds; reserved: how
\* many lines create_order_from_cart had reserved when it stopped; listed:
\* what list_user_orders returned
Result(op, sarg, err, prev) ==
    [op |-> op, sarg |-> sarg, err |-> err, prev |-> prev, skip |-> "",
     has_cart |-> FALSE, left |-> 0, reserved |-> 0, listed |-> <<>>]

\* every counter of every row stays within the model's window
InRange(inv) ==
    \A p \in Products :
        /\ inv[p].total_stock \in (0 - CounterCap)..CounterCap
        /\ inv[p].available_stock \in (0 - CounterCap)..CounterCap
        /\ inv[p].reserved_stock \in (0 - CounterCap)..CounterCap

\* a session no request runs in
NoRequest == [pc |-> "idle", kind |-> "", quantity |-> 0, row |-> NoInventory, outcome |-> ""]

\* no order priced yet
NotPriced == [lines |-> <<>>, total_items |-> 0, subtotal |-> 0, tax |-> 0,
              discount |-> 0, grand_total |-> 0]

\* a key Redis does not hold
NoEntry == [set |-> FALSE, value |-> <<>>]

\* ------------------------------------------------------------------ Redis
\* RedisClient (utils/redis_client.py): every method catches the exception
\* of the Redis call, logs it and returns; raised tells whether the
\* exception leaves the method
RedisGet(c, up, key) ==
    IF up /\ c[key].set
    THEN [found |-> TRUE, value |-> c[key].value, raised |-> FALSE]
    ELSE [found |-> FALSE, value |-> <<>>, raised |-> FALSE]

RedisSetex(c, up, key, value) ==
    [cache |-> IF up THEN [c EXCEPT ![key] = [set |-> TRUE, value |-> value]] ELSE c,
     raised |-> FALSE]

\* a delete that lets the connection error through
RedisDeleteUnguarded(c, up, key) ==
    [cache |-> IF up THEN [c EXCEPT ![key] = NoEntry] ELSE c,
     raised |-> ~up]

RedisDelete(c, up, key) ==
    [cache |-> IF up THEN [c EXCEPT ![key] = NoEntry] ELSE c,
     raised |-> FALSE]

\* what the caller of a handler sees: the exception of a cache call that was
\* not caught, else the handler's own result
Raised(r) == IF r.raised THEN "RedisError" ELSE ""

\* the statuses after which an order's stock is settled
Settled == {"PAID", "SHIPPED", "DELIVERED"}

\* the history after a step that leaves the orders ords
Track(h, ords) ==
    IF h.on
    THEN [h EXCEPT !.settled = @ \cup {o \in 1..Len(ords) : ords[o].status \in Settled}]
    ELSE h

\* no handler in flight
NoTxn == [pc |-> "idle"]

\* nothing priced, nothing cached, Redis answering, no history kept, no
\* transaction open
Quiet ==
    /\ priced = NotPriced
    /\ cache = [u \in Users |-> NoEntry]
    /\ redis_up = TRUE
    /\ history = [on |-> FALSE, settled |-> {}]
    /\ txn = [i \in Sessions |-> NoTxn]
    /\ locks = [p \in Products |-> 0]

Init ==
    /\ inventory = [p \in Products |-> NoInventory]
    /\ orders = <<>>
    /\ last = Result("init", "", "", "")
    /\ session = [i \in Sessions |-> NoRequest]
    /\ row_lock = 0
    /\ lock_order = <<>>
    /\ Quiet

\* ------------------------------------------------------------ stock ledger
\* create_inventory_for_product: product_id is the row's unique key
CreateInventory(p, stock) ==
    /\ ~inventory[p].exists
    /\ inventory' = [inventory EXCEPT ![p] =
            [exists |-> TRUE, total_stock |-> stock,
             available_stock |-> stock, reserved_stock |-> 0]]
    /\ UNCHANGED <<fvars, cache, history>>
    /\ last' = Result("create_inventory", "", "", "")
    /\ UNCHANGED orders

\* finalize_stock's update of one row (lines 169-170)
FinalizeRow(row, q) ==
    [row EXCEPT !.reserved_stock = @ - q, !.total_stock = @ - q]

RECURSIVE FinalizeItems(_, _, _)
\* finalize_stock's loop (lines 158-177): a missing row is skipped
FinalizeItems(w, items, i) ==
    IF i > Len(items) THEN w
    ELSE LET p == items[i].product_id
         IN IF ~w[p].exists
            THEN FinalizeItems(w, items, i + 1)
            ELSE FinalizeItems([w EXCEPT ![p] = FinalizeRow(w[p], items[i].quantity)],
                               items, i + 1)

\* the order_items rows of order_id (none when there is no such order)
ItemsOf(o) == IF o \in 1..Len(orders) THEN orders[o].items ELSE <<>>
StatusOf(o) == IF o \in 1..Len(orders) THEN orders[o].status ELSE ""

\* finalize_stock(db, order_id)
FinalizeStock(o) ==
    LET items == ItemsOf(o)
        w == IF items = <<>> THEN inventory ELSE FinalizeItems(inventory, items, 1)
    IN /\ InRange(w)
       /\ inventory' = w
       /\ UNCHANGED <<fvars, cache, history>>
       /\ last' = Result("finalize_stock", "", "", "")
       /\ UNCHANGED orders

\* a clamp that zeroes reserved_stock and credits nothing
RollbackRowDropRemainder(row, q) ==
    IF row.reserved_stock < q
    THEN IF row.reserved_stock > 0
         THEN [row EXCEPT !.reserved_stock = 0]
         ELSE row
    ELSE [row EXCEPT !.reserved_stock = @ - q, !.available_stock = @ + q]

\* rollback_stock's update of one row (lines 245-262), with its clamp
RollbackRow(row, q) ==
    IF row.reserved_stock < q
    THEN IF row.reserved_stock > 0
         THEN [row EXCEPT !.available_stock = @ + row.reserved_stock,
                          !.reserved_stock = 0]
         ELSE row
    ELSE [row EXCEPT !.reserved_stock = @ - q, !.available_stock = @ + q]

RECURSIVE RollbackItemsStopAtMissing(_, _, _)
\* a loop that gives up at the first line whose inventory row is missing
RollbackItemsStopAtMissing(w, items, i) ==
    IF i > Len(items) THEN w
    ELSE LET p == items[i].product_id
         IN IF ~w[p].exists
            THEN w
            ELSE RollbackItemsStopAtMissing(
                    [w EXCEPT ![p] = RollbackRow(w[p], items[i].quantity)], items, i + 1)

RECURSIVE RollbackItems(_, _, _)
\* rollback_stock's loop (lines 233-269): a missing row is skipped
RollbackItems(w, items, i) ==
    IF i > Len(items) THEN w
    ELSE LET p == items[i].product_id
         IN IF ~w[p].exists
            THEN RollbackItems(w, items, i + 1)
            ELSE RollbackItems([w EXCEPT ![p] = RollbackRow(w[p], items[i].quantity)],
                               items, i + 1)

\* rollback_stock without its idempotency guard
RollbackStockOnUnguarded(inv, ords, o) ==
    IF o \notin 1..Len(ords)
    THEN [inv |-> inv, orders |-> ords, skip |-> "order not found"]
    ELSE [inv |-> RollbackItems(inv, ords[o].items, 1),
          orders |-> [ords EXCEPT ![o].stock_rollback_done = TRUE],
          skip |-> IF ords[o].items = <<>> THEN "no items" ELSE ""]

\* rollback_stock(db, order_id) on the rows inv and the orders ords: what it
\* commits, and the skip it logs
RollbackStockOn(inv, ords, o) ==
    IF o \notin 1..Len(ords)
    THEN [inv |-> inv, orders |-> ords, skip |-> "order not found"]
    ELSE IF ords[o].stock_rollback_done
    THEN [inv |-> inv, orders |-> ords, skip |-> "already done"]
    ELSE [inv |-> RollbackItems(inv, ords[o].items, 1),
          orders |-> [ords EXCEPT ![o].stock_rollback_done = TRUE],
          skip |-> IF ords[o].items = <<>> THEN "no items" ELSE ""]

RollbackStock(o) ==
    \E r \in {RollbackStockOn(inventory, orders, o)} :
       /\ InRange(r.inv)
       /\ inventory' = r.inv
       /\ orders' = r.orders
       /\ UNCHANGED <<fvars, cache, history>>
       /\ last' = [Result("rollback_stock", "", "", "") EXCEPT !.skip = r.skip]

\* an update that stores the new total and leaves available_stock as it was
UpdateInventoryTotalOnly(p, new_total) ==
    /\ IF ~inventory[p].exists
       THEN /\ UNCHANGED inventory
            /\ UNCHANGED <<fvars, cache, history>>
            /\ last' = Result("update_inventory", "", "AttributeError", "")
       ELSE LET w == [inventory EXCEPT ![p].total_stock = new_total]
            IN /\ InRange(w)
               /\ inventory' = w
               /\ UNCHANGED <<fvars, cache, history>>
               /\ last' = Result("update_inventory", "", "", "")
    /\ UNCHANGED orders

\* update_inventory (PUT /inventory/{product_id}); get_by_product_id gives None
\* for a product without a row and the handler then fails on None.total_stock
UpdateInventory(p, new_total) ==
    /\ IF ~inventory[p].exists
       THEN /\ UNCHANGED inventory
            /\ UNCHANGED <<fvars, cache, history>>
            /\ last' = Result("update_inventory", "", "AttributeError", "")
       ELSE LET diff == new_total - inventory[p].total_stock
                w == [inventory EXCEPT ![p].total_stock = new_total,
                                       ![p].available_stock = @ + diff]
            IN /\ InRange(w)
               /\ inventory' = w
               /\ UNCHANGED <<fvars, cache, history>>
               /\ last' = Result("update_inventory", "", "", "")
    /\ UNCHANGED orders

\* ------------------------------------------------------------ order service
ALLOWED_STATUSES == {"PENDING", "PAID", "SHIPPED", "DELIVERED", "CANCELLED", "EXPIRED"}
\* update_status takes new_status as the caller sends it
StatusInputs == {"PAID", "CANCELLED"}
PaymentStatusInputs == {"PAID", "paid", "FAILED"}

\* str.upper() on the payment statuses the model sends
Upper(s) == IF s = "paid" THEN "PAID" ELSE s

\* reserve_stock(db, product_id, quantity) on the rows inv: the rows after it
\* and the error it raised
ReserveStockOn(inv, p, q) ==
    IF ~inv[p].exists THEN [inv |-> inv, err |-> "NotFound"]
    ELSE IF inv[p].available_stock < q THEN [inv |-> inv, err |-> "InsufficientStock"]
    ELSE [inv |-> [inv EXCEPT ![p].available_stock = @ - q, ![p].reserved_stock = @ + q],
          err |-> ""]

\* valid_items keeping every line whose quantity is truthy
IsValidLineTruthy(l) == l.quantity # 0

\* valid_items (line 79): the cart lines whose quantity is truthy and > 0
IsValidLine(l) == l.quantity # 0 /\ l.quantity > 0
ValidItems(items) == SelectSeq(items, IsValidLine)

\* a reservation that deducts the stock and holds nothing
ReserveRowDeductOnly(row, q) ==
    [row EXCEPT !.available_stock = @ - q]

\* the reservation of one line (lines 116-117)
ReserveRow(row, q) ==
    [row EXCEPT !.available_stock = @ - q, !.reserved_stock = @ + q]

RECURSIVE ReserveLines(_, _, _, _)
\* the loop over valid_items (lines 96-134) on the session's view w of the
\* rows; the first line that raises ends the loop with the rows as they were
\* when it raised
ReserveLines(w, items, i, active) ==
    IF i > Len(items) THEN [inv |-> w, err |-> "", reserved |-> i - 1]
    ELSE LET p == items[i].product_id
             q == items[i].quantity
         IN IF p \notin active
            THEN [inv |-> w, err |-> "ProductUnavailable", reserved |-> i - 1]
            ELSE IF ~w[p].exists
            THEN [inv |-> w, err |-> "AttributeError", reserved |-> i - 1]
            ELSE IF w[p].available_stock < q
            THEN [inv |-> w, err |-> "InsufficientStock", reserved |-> i - 1]
            ELSE ReserveLines([w EXCEPT ![p] = ReserveRow(w[p], q)], items, i + 1, active)

\* the order row and its order_items rows (lines 83-90, 125-134)
NewOrder(u, items) ==
    [user_id |-> u, status |-> "PENDING", items |-> items, stock_rollback_done |-> FALSE]

\* the cart after lines 142-143: the valid lines are deleted
CartAfterCheckout(c) ==
    [c EXCEPT !.items = SelectSeq(c.items, LAMBDA l : ~IsValidLine(l))]

\* what the session holds when create_order_from_cart stops: the rows as
\* changed so far, the order rows, the cart lines left, and the error raised
CheckoutOutcome(u, c, active) ==
    IF ~c.exists
    THEN [inv |-> inventory, orders |-> orders, cart |-> c, err |-> "EmptyCart",
          reserved |-> 0]
    ELSE LET valid_items == ValidItems(c.items)
             r == ReserveLines(inventory, valid_items, 1, active)
         IN IF valid_items = <<>>
            THEN [inv |-> inventory, orders |-> orders, cart |-> c, err |-> "EmptyCart",
          reserved |-> 0]
            ELSE [inv |-> r.inv,
                  orders |-> Append(orders, NewOrder(u, valid_items)),
                  cart |-> CartAfterCheckout(c),
                  err |-> r.err, reserved |-> r.reserved]

\* a create_order_from_cart whose session content reaches the store line by line
CommittedPartial(c, out) == out

\* what create_order_from_cart leaves in the store: the session's content when
\* it reached db.commit() (line 145), the store as it was when it raised
Committed(c, out) ==
    IF out.err = ""
    THEN out
    ELSE [inv |-> inventory, orders |-> orders, cart |-> c, err |-> out.err,
          reserved |-> out.reserved]

\* what a call of create_order_from_cart(user_id) made now would leave behind
CheckoutResult(u, c, active) == Committed(c, CheckoutOutcome(u, c, active))

\* OrderService.create_order_from_cart(user_id), on the cart c of the user
CreateOrderFromCart(u, c, active) ==
    \E r \in {CheckoutResult(u, c, active)} :
       /\ Len(r.orders) <= MaxOrders
       /\ InRange(r.inv)
       /\ inventory' = r.inv
       /\ orders' = r.orders
       /\ cache' = IF r.err = "" THEN RedisDelete(cache, redis_up, u).cache ELSE cache
       /\ UNCHANGED <<fvars, history>>
       /\ last' = [Result("create_order_from_cart", "",
                         IF r.err = "" THEN Raised(RedisDelete(cache, redis_up, u))
                         ELSE r.err, "")
                        EXCEPT !.has_cart = r.cart.exists, !.left = Len(r.cart.items),
                               !.reserved = r.reserved]

\* the release of one line by _rollback_inventory (lines 51-52)
ReleaseRow(row, q) ==
    [row EXCEPT !.available_stock = @ + q, !.reserved_stock = @ - q]

RECURSIVE ReleaseItems(_, _, _)
ReleaseItems(w, items, i) ==
    IF i > Len(items) THEN w
    ELSE LET p == items[i].product_id
         IN IF ~w[p].exists
            THEN ReleaseItems(w, items, i + 1)
            ELSE ReleaseItems([w EXCEPT ![p] = ReleaseRow(w[p], items[i].quantity)],
                              items, i + 1)

\* OrderService._rollback_inventory(order): the rows after it
RollbackInventory(w, order) ==
    IF order.status \notin {"PENDING", "CANCELLED", "EXPIRED"}
    THEN w
    ELSE ReleaseItems(w, order.items, 1)

\* OrderService.update_status(order_id, new_status)
UpdateStatus(o, new_status) ==
    IF o \notin 1..Len(orders)
    THEN /\ UNCHANGED <<fvars, cache, history>>
         /\ last' = Result("update_status", new_status, "NotFound", "")
         /\ UNCHANGED <<inventory, orders>>
    ELSE LET w == IF new_status \in {"CANCELLED", "EXPIRED"}
                  THEN RollbackInventory(inventory, orders[o])
                  ELSE inventory
             evict == RedisDelete(cache, redis_up, orders[o].user_id)
         IN /\ InRange(w)
            /\ inventory' = w
            /\ orders' = [orders EXCEPT ![o].status = new_status]
            /\ cache' = evict.cache
            /\ history' = Track(history, orders')
            /\ UNCHANGED fvars
            /\ last' = Result("update_status", new_status, Raised(evict), orders[o].status)

\* attach_payment that records the payment and only ever moves the order to PAID
AttachPaymentNoRollback(o, payment_status) ==
    IF o \notin 1..Len(orders)
    THEN /\ UNCHANGED <<fvars, cache, history>>
         /\ last' = Result("attach_payment", payment_status, "NotFound", "")
         /\ UNCHANGED <<inventory, orders>>
    ELSE /\ inventory' = inventory
         /\ orders' = [orders EXCEPT ![o].status =
                IF Upper(payment_status) = "PAID" THEN "PAID" ELSE @]
         /\ cache' = RedisDelete(cache, redis_up, orders[o].user_id).cache
         /\ history' = Track(history, orders')
         /\ UNCHANGED fvars
         /\ last' = Result("attach_payment", payment_status, "", orders[o].status)

\* OrderService.attach_payment(order_id, ..., payment_status)
AttachPayment(o, payment_status) ==
    IF o \notin 1..Len(orders)
    THEN /\ UNCHANGED <<fvars, cache, history>>
         /\ last' = Result("attach_payment", payment_status, "NotFound", "")
         /\ UNCHANGED <<inventory, orders>>
    ELSE LET paid == Upper(payment_status) = "PAID"
             w == IF paid THEN inventory ELSE RollbackInventory(inventory, orders[o])
             evict == RedisDelete(cache, redis_up, orders[o].user_id)
         IN /\ InRange(w)
            /\ inventory' = w
            /\ orders' = [orders EXCEPT ![o].status = IF paid THEN "PAID" ELSE "CANCELLED"]
            /\ cache' = evict.cache
            /\ history' = Track(history, orders')
            /\ UNCHANGED fvars
            /\ last' = Result("attach_payment", payment_status, Raised(evict),
                              orders[o].status)

Next ==
    \/ \E p \in Products, stock \in StockValues : CreateInventory(p, stock)
    \/ \E p \in Products, t \in StockValues : UpdateInventory(p, t)
    \/ \E o \in OrderIds : FinalizeStock(o)
    \/ \E o \in OrderIds : RollbackStock(o)
    \/ \E u \in Users, c \in Carts, active \in ActiveSets :
            CreateOrderFromCart(u, c, active)
    \/ \E o \in OrderIds, s \in StatusInputs : UpdateStatus(o, s)
    \/ \E o \in OrderIds, ps \in PaymentStatusInputs : AttachPayment(o, ps)

Spec == Init /\ [][Next]_vars

\* ------------------------------------------- concurrent reservation requests
\* Each request runs in its own session and transaction. Several requests for
\* the same product are in flight together; what one session changes reaches
\* the store at its db.commit(), and a transaction's end, by commit or by the
\* raise that abandons it, gives up the row lock it holds.
RequestKinds == {"create_order_from_cart", "reserve_stock"}
ContendedProduct == CHOOSE p \in Products : TRUE
Requests ==
    {[pc |-> "start", kind |-> k, quantity |-> q, row |-> NoInventory, outcome |-> ""] :
        k \in RequestKinds, q \in 1..MaxQty}

InitConcurrent ==
    /\ \E n \in StockValues :
            inventory = [p \in Products |->
                [exists |-> TRUE, total_stock |-> n, available_stock |-> n,
                 reserved_stock |-> 0]]
    /\ orders = <<>>
    /\ last = Result("init", "", "", "")
    /\ session \in [Sessions -> Requests]
    /\ row_lock = 0
    /\ lock_order = <<>>
    /\ Quiet

\* the row read without the lock: a plain SELECT of the committed row
WithForUpdateNoLock(i) ==
    /\ session[i].pc = "start"
    /\ session[i].kind = "create_order_from_cart"
    /\ lock_order' = Append(lock_order, i)
    /\ session' = [session EXCEPT ![i].pc = "locked",
                                  ![i].row = inventory[ContendedProduct]]
    /\ UNCHANGED <<inventory, orders, last, row_lock, ovars>>

\* create_order_from_cart's read of the inventory row (lines 106-111):
\* SELECT ... FOR UPDATE waits until no other transaction holds the row's
\* lock, takes the lock and returns the row as last committed
WithForUpdate(i) ==
    /\ session[i].pc = "start"
    /\ session[i].kind = "create_order_from_cart"
    /\ row_lock = 0
    /\ row_lock' = i
    /\ lock_order' = Append(lock_order, i)
    /\ session' = [session EXCEPT ![i].pc = "locked",
                                  ![i].row = inventory[ContendedProduct]]
    /\ UNCHANGED <<inventory, orders, last, ovars>>

\* reserve_stock's read of the inventory row (line 107), by the repository's
\* get_by_product_id: the exclusive read the ledger's contract asks of every
\* state-changing operation
GetByProductId(i) ==
    /\ session[i].pc = "start"
    /\ session[i].kind = "reserve_stock"
    /\ row_lock = 0
    /\ row_lock' = i
    /\ lock_order' = Append(lock_order, i)
    /\ session' = [session EXCEPT ![i].pc = "locked",
                                  ![i].row = inventory[ContendedProduct]]
    /\ UNCHANGED <<inventory, orders, last, ovars>>

\* the lock after session i's transaction has ended
Unlocked(i) == IF row_lock = i THEN 0 ELSE row_lock

\* the availability check and the reservation on the session's row
\* (order_services.py 113-117, inventory_services.py 113-123)
CheckAndReserve(i) ==
    /\ session[i].pc = "locked"
    /\ IF session[i].row.available_stock < session[i].quantity
       THEN /\ session' = [session EXCEPT ![i].pc = "done",
                                          ![i].outcome = "InsufficientStock"]
            /\ row_lock' = Unlocked(i)
       ELSE /\ session' = [session EXCEPT ![i].pc = "reserved",
                                ![i].row = ReserveRow(@, session[i].quantity)]
            /\ UNCHANGED row_lock
    /\ UNCHANGED <<inventory, orders, last, lock_order, ovars>>

\* db.commit() (order_services.py 145, inventory_services.py 125): the
\* session's row and, for create_order_from_cart, its order reach the store
CommitReservation(i) ==
    /\ session[i].pc = "reserved"
    /\ inventory' = [inventory EXCEPT ![ContendedProduct] = session[i].row]
    /\ orders' = IF session[i].kind = "create_order_from_cart"
                 THEN Append(orders, NewOrder(CHOOSE u \in Users : TRUE,
                        <<[product_id |-> ContendedProduct,
                           quantity |-> session[i].quantity]>>))
                 ELSE orders
    /\ row_lock' = Unlocked(i)
    /\ session' = [session EXCEPT ![i].pc = "done", ![i].outcome = "ok"]
    /\ UNCHANGED <<last, lock_order, ovars>>

NextConcurrent ==
    \/ \E i \in Sessions : WithForUpdate(i)
    \/ \E i \in Sessions : GetByProductId(i)
    \/ \E i \in Sessions : CheckAndReserve(i)
    \/ \E i \in Sessions : CommitReservation(i)

SpecConcurrent == InitConcurrent /\ [][NextConcurrent]_vars

\* ------------------------------------------------------------ order amounts
\* Money is held in hundredths of the currency unit; a catalog price is given
\* in thousandths, so that quantizing it rounds.
PriceInputs == 0..MaxPrice

\* a quantization that drops what lies beyond the second decimal
QuantizeMoneyTruncating(n, d) == n \div d

\* _quantize_money: the value n / d hundredths, n >= 0, quantized to whole
\* hundredths with ROUND_HALF_UP
QuantizeMoney(n, d) == (2 * n + d) \div (2 * d)

RECURSIVE PriceLines(_, _, _)
\* the line items of the loop (lines 119-133), from the i-th valid cart line on
PriceLines(items, price, i) ==
    IF i > Len(items) THEN <<>>
    ELSE LET unit_price == QuantizeMoney(price[items[i].product_id], 10)
             line_total == QuantizeMoney(unit_price * items[i].quantity, 1)
         IN <<[unit_price |-> unit_price, quantity |-> items[i].quantity,
               total_price |-> line_total]>>
            \o PriceLines(items, price, i + 1)

RECURSIVE Accumulate(_, _, _)
\* subtotal += line_total and total_items += quantity (lines 122-123), for
\* the field f of the lines
Accumulate(lines, f, i) ==
    IF i > Len(lines) THEN 0 ELSE lines[i][f] + Accumulate(lines, f, i + 1)

\* the amounts create_order_from_cart stores with the order (lines 135-139)
OrderAmounts(items, price) ==
    LET lines == PriceLines(items, price, 1)
        subtotal == Accumulate(lines, "total_price", 1)
        tax == QuantizeMoney(subtotal * 18, 100)
    IN [lines |-> lines,
        total_items |-> Accumulate(lines, "quantity", 1),
        subtotal |-> subtotal,
        tax |-> tax,
        discount |-> 0,
        grand_total |-> QuantizeMoney(subtotal + tax, 1)]

\* create_order_from_cart pricing the valid lines of the cart c at the catalog
\* prices it finds
PriceOrder(c, price) ==
    /\ priced = NotPriced
    /\ ValidItems(c.items) # <<>>
    /\ priced' = OrderAmounts(ValidItems(c.items), price)
    /\ UNCHANGED <<inventory, orders, last, cvars, cache, redis_up, history>>

NextPricing ==
    \E c \in Carts, price \in [Products -> PriceInputs] : PriceOrder(c, price)

SpecPricing == Init /\ [][NextPricing]_vars

\* ------------------------------------------------------- the status machine
\* The payment sessions are rows of the payment subsystem: whether
\* verify_and_capture_payment finds the session it is asked about, and whether
\* the gateway accepts the signature, are inputs.
UnknownStatus == "REFUNDED"
AllStatusInputs == ALLOWED_STATUSES \cup {UnknownStatus}
SingleCart ==
    [exists |-> TRUE, items |-> <<[product_id |-> ContendedProduct, quantity |-> 1]>>]

\* PaymentService.verify_and_capture_payment, for a session of order o
VerifyAndCapturePayment(o, found, valid) ==
    LET prev == IF o \in 1..Len(orders) THEN orders[o].status ELSE ""
    IN /\ orders' = IF found /\ valid /\ o \in 1..Len(orders)
                    THEN [orders EXCEPT ![o].status = "PAID"]
                    ELSE orders
       /\ last' = Result("verify_and_capture_payment", "",
                         IF ~found THEN "NotFound"
                         ELSE IF ~valid THEN "SignatureFailed" ELSE "", prev)
       /\ history' = Track(history, orders')
       /\ UNCHANGED <<inventory, fvars, cache>>

InitStatus ==
    /\ inventory = [p \in Products |-> NoInventory]
    /\ orders = <<>>
    /\ last = Result("init", "", "", "")
    /\ session = [i \in Sessions |-> NoRequest]
    /\ row_lock = 0
    /\ lock_order = <<>>
    /\ priced = NotPriced
    /\ cache = [u \in Users |-> NoEntry]
    /\ redis_up = TRUE
    /\ history = [on |-> TRUE, settled |-> {}]
    /\ txn = [i \in Sessions |-> NoTxn]
    /\ locks = [p \in Products |-> 0]

NextStatus ==
    \/ \E p \in Products, stock \in StockValues : CreateInventory(p, stock)
    \/ \E u \in Users : orders = <<>> /\ CreateOrderFromCart(u, SingleCart, Products)
    \/ \E o \in OrderIds, s \in AllStatusInputs : UpdateStatus(o, s)
    \/ \E o \in OrderIds, ps \in PaymentStatusInputs : AttachPayment(o, ps)
    \/ \E o \in OrderIds, found \in BOOLEAN, valid \in BOOLEAN :
            VerifyAndCapturePayment(o, found, valid)

SpecStatus == InitStatus /\ [][NextStatus]_vars

\* ---------------------------------------------------- the order list cache
\* Order.to_dict, as far as the order service writes the order
OrderDict(ords, o) ==
    [id |-> o, user_id |-> ords[o].user_id, status |-> ords[o].status,
     items |-> ords[o].items]

RECURSIVE FetchFromDb(_, _, _)
\* fetch_from_db of list_user_orders: the user's orders, newest first, from
\* order o down
FetchFromDb(ords, u, o) ==
    IF o = 0 THEN <<>>
    ELSE (IF ords[o].user_id = u THEN <<OrderDict(ords, o)>> ELSE <<>>)
         \o FetchFromDb(ords, u, o - 1)

\* json.dumps and json.loads on the list of order dicts
JsonDumps(data) == [json |-> data]
JsonLoads(text) == text.json

\* get_or_set_cache(key, ttl, fetch_fn): the cache after it and what it returns
GetOrSetCache(c, up, key, data) ==
    LET cached == RedisGet(c, up, key)
    IN IF cached.found
       THEN [cache |-> c, value |-> JsonLoads(cached.value)]
       ELSE [cache |-> RedisSetex(c, up, key, JsonDumps(data)).cache, value |-> data]

\* OrderService.list_user_orders(user_id)
ListUserOrders(u) ==
    \E r \in {GetOrSetCache(cache, redis_up, u, FetchFromDb(orders, u, Len(orders)))} :
        /\ cache' = r.cache
        /\ last' = [Result("list_user_orders", "", "", "") EXCEPT !.listed = r.value]
        /\ UNCHANGED <<inventory, orders, fvars, history>>

\* the entry's ttl of 180 seconds runs out
Expire(u) ==
    /\ cache[u].set
    /\ cache' = [cache EXCEPT ![u] = NoEntry]
    /\ UNCHANGED <<inventory, orders, last, fvars, history>>

\* Redis stops answering, and answers again
RedisFails ==
    /\ redis_up
    /\ redis_up' = FALSE
    /\ UNCHANGED <<inventory, orders, last, cvars, priced, cache, history>>

RedisRecovers ==
    /\ ~redis_up
    /\ redis_up' = TRUE
    /\ UNCHANGED <<inventory, orders, last, cvars, priced, cache, history>>

NextCache ==
    \/ \E p \in Products, stock \in StockValues : CreateInventory(p, stock)
    \/ \E u \in Users : orders = <<>> /\ CreateOrderFromCart(u, SingleCart, Products)
    \/ \E o \in OrderIds, s \in StatusInputs : UpdateStatus(o, s)
    \/ \E o \in OrderIds, ps \in PaymentStatusInputs : AttachPayment(o, ps)
    \/ \E o \in OrderIds, found \in BOOLEAN, valid \in BOOLEAN :
            VerifyAndCapturePayment(o, found, valid)
    \/ \E o \in OrderIds : FinalizeStock(o)
    \/ \E o \in OrderIds : RollbackStock(o)
    \/ \E u \in Users : ListUserOrders(u)
    \/ \E u \in Users : Expire(u)

\* every request runs alone and Redis answers throughout
SpecCache == Init /\ [][NextCache]_vars

NextCacheFaulty ==
    \/ NextCache
    \/ RedisFails
    \/ RedisRecovers

\* Redis may stop answering between any two requests
SpecCacheFaulty == Init /\ [][NextCacheFaulty]_vars

\* ------------------------------------------------ rollback of any order row
\* rollback_stock takes whatever order and inventory rows the store holds:
\* orders without line items, and lines of products that have no inventory
\* row, among them.
LedgerProducts == 1..(NumProducts + 1)
LedgerRows ==
    {NoInventory} \cup
    {[exists |-> TRUE, total_stock |-> MaxStock, available_stock |-> MaxStock - r,
      reserved_stock |-> r] : r \in 0..MaxStock}
LedgerLines == [product_id : LedgerProducts, quantity : 1..MaxQty]
LedgerItems == UNION {[1..n -> LedgerLines] : n \in 0..MaxCartLen}

InitRollback ==
    /\ inventory \in [LedgerProducts -> LedgerRows]
    /\ \E u \in Users, items \in LedgerItems, done \in BOOLEAN,
          status \in {"PENDING", "CANCELLED"} :
            orders = <<[NewOrder(u, items) EXCEPT !.stock_rollback_done = done,
                                                  !.status = status]>>
    /\ last = Result("init", "", "", "")
    /\ session = [i \in Sessions |-> NoRequest]
    /\ row_lock = 0
    /\ lock_order = <<>>
    /\ Quiet

NextRollback == \E o \in OrderIds : RollbackStock(o)

SpecRollback == InitRollback /\ [][NextRollback]_vars

\* ------------------------------------------- checkouts that share products
\* Several create_order_from_cart transactions run together, each on the cart
\* of its user. A transaction takes the FOR UPDATE lock of one inventory row
\* per cart line, in the order of cart.items, and keeps every lock until its
\* transaction ends.
CartOrders ==
    {c \in UNION {[1..n -> LedgerLines] : n \in 1..MaxCartLen} :
        /\ \A i \in DOMAIN c : c[i].quantity = 1
        /\ \A i, j \in DOMAIN c : c[i].product_id = c[j].product_id => i = j}

Checkouts ==
    {[pc |-> "run", lines |-> c, next |-> 1, rows |-> [p \in {} |-> NoInventory],
      outcome |-> ""] : c \in CartOrders}

InitLocks ==
    /\ \E n \in StockValues :
            inventory = [p \in LedgerProducts |->
                [exists |-> TRUE, total_stock |-> n, available_stock |-> n,
                 reserved_stock |-> 0]]
    /\ orders = <<>>
    /\ last = Result("init", "", "", "")
    /\ session = [i \in Sessions |-> NoRequest]
    /\ row_lock = 0
    /\ lock_order = <<>>
    /\ priced = NotPriced
    /\ cache = [u \in Users |-> NoEntry]
    /\ redis_up = TRUE
    /\ history = [on |-> FALSE, settled |-> {}]
    /\ txn \in [Sessions -> Checkouts]
    /\ locks = [p \in LedgerProducts |-> 0]

\* the locks after transaction i has ended
ReleasedLocks(i) == [p \in DOMAIN locks |-> IF locks[p] = i THEN 0 ELSE locks[p]]

\* the product whose row transaction i asks for next
NextProduct(i) == txn[i].lines[txn[i].next].product_id

\* one turn of the loop over valid_items (lines 96-117): the row's SELECT ...
\* FOR UPDATE, which waits while another transaction holds the row, then the
\* availability check and the reservation on the session's copy of the row
LockAndReserveLine(i) ==
    /\ txn[i].pc = "run"
    /\ txn[i].next <= Len(txn[i].lines)
    /\ locks[NextProduct(i)] \in {0, i}
    /\ LET p == NextProduct(i)
           q == txn[i].lines[txn[i].next].quantity
           row == inventory[p]
       IN IF row.available_stock < q
          THEN /\ txn' = [txn EXCEPT ![i].pc = "done",
                                     ![i].outcome = "InsufficientStock"]
               /\ locks' = ReleasedLocks(i)
          ELSE /\ txn' = [txn EXCEPT ![i].next = @ + 1,
                                     ![i].rows = [r \in DOMAIN @ \cup {p} |->
                                        IF r = p THEN ReserveRow(row, q) ELSE @[r]]]
               /\ locks' = [locks EXCEPT ![p] = i]
    /\ UNCHANGED <<inventory, orders, last, session, row_lock, lock_order,
                   priced, cache, redis_up, history>>

\* db.commit() (line 145) after the last line: the session's rows and its
\* order reach the store, and the transaction's locks are given up
CommitCheckout(i) ==
    /\ txn[i].pc = "run"
    /\ txn[i].next > Len(txn[i].lines)
    /\ inventory' = [p \in DOMAIN inventory |->
                        IF p \in DOMAIN txn[i].rows THEN txn[i].rows[p] ELSE inventory[p]]
    /\ orders' = Append(orders, NewOrder(CHOOSE u \in Users : TRUE, txn[i].lines))
    /\ locks' = ReleasedLocks(i)
    /\ txn' = [txn EXCEPT ![i].pc = "done", ![i].outcome = "ok"]
    /\ UNCHANGED <<last, session, row_lock, lock_order, priced, cache, redis_up, history>>

NextLocks ==
    \/ \E i \in Sessions : LockAndReserveLine(i)
    \/ \E i \in Sessions : CommitCheckout(i)

SpecLocks == InitLocks /\ [][NextLocks]_vars

\* ----------------------------------------------------- the product list cache
\* A query parameter as Python holds it: kind is its type (None for an absent
\* parameter) and text is what str() gives for it.
Absent == [kind |-> "None", text |-> "None"]
IntOf(t) == [kind |-> "int", text |-> t]
FloatOf(t) == [kind |-> "float", text |-> t]
StrOf(t) == [kind |-> "str", text |-> t]

SkipInputs == {IntOf("0")}
LimitInputs == {IntOf("10")}
SearchInputs == {Absent, StrOf("none"), StrOf("shoe")}
CategoryInputs == {Absent, IntOf("0"), IntOf("1")}
MinPriceInputs == {Absent, FloatOf("0.0")}
MaxPriceInputs == {Absent}

ProductQueries ==
    [skip : SkipInputs, limit : LimitInputs, search : SearchInputs,
     category_id : CategoryInputs, min_price : MinPriceInputs,
     max_price : MaxPriceInputs]

\* Python's truth value of a parameter: None, 0, 0.0 and "" are false
Truthy(v) ==
    /\ v.kind # "None"
    /\ ~(v.kind = "int" /\ v.text = "0")
    /\ ~(v.kind = "float" /\ v.text = "0.0")
    /\ ~(v.kind = "str" /\ v.text = "")

\* f"{v or 'none'}"
OrNone(v) == IF Truthy(v) THEN v.text ELSE "none"

\* list_products' cache_key (lines 51-58)
CacheKey(q) ==
    "product:list:"
    \o "skip=" \o q.skip.text \o ":"
    \o "limit=" \o q.limit.text \o ":"
    \o "search=" \o OrNone(q.search) \o ":"
    \o "category=" \o OrNone(q.category_id) \o ":"
    \o "min=" \o OrNone(q.min_price) \o ":"
    \o "max=" \o OrNone(q.max_price)

CacheKeys == {CacheKey(q) : q \in ProductQueries}

\* fetch_from_db of list_products: the products the repository selects for
\* the query's parameters, kept as the selection itself
FetchProducts(q) == <<[selected_by |-> q]>>

\* ProductService.list_products(skip, limit, search, category_id, min_price,
\* max_price)
ListProducts(q) ==
    \E r \in {GetOrSetCache(cache, redis_up, CacheKey(q), FetchProducts(q))} :
        /\ cache' = r.cache
        /\ last' = [Result("list_products", "", "", "") EXCEPT !.listed = r.value]
        /\ UNCHANGED <<inventory, orders, fvars, history>>

\* redis_client.delete_pattern("product:list:*") of create_product,
\* update_product and delete_product
InvalidateProductLists ==
    /\ cache' = IF redis_up THEN [k \in DOMAIN cache |-> NoEntry] ELSE cache
    /\ last' = Result("update_product", "", "", "")
    /\ UNCHANGED <<inventory, orders, fvars, history>>

\* an entry's ttl of 300 seconds runs out
ExpireProductList(k) ==
    /\ cache[k].set
    /\ cache' = [cache EXCEPT ![k] = NoEntry]
    /\ UNCHANGED <<inventory, orders, last, fvars, history>>

InitProducts ==
    /\ inventory = [p \in Products |-> NoInventory]
    /\ orders = <<>>
    /\ last = Result("init", "", "", "")
    /\ session = [i \in Sessions |-> NoRequest]
    /\ row_lock = 0
    /\ lock_order = <<>>
    /\ priced = NotPriced
    /\ cache = [k \in CacheKeys |-> NoEntry]
    /\ redis_up = TRUE
    /\ history = [on |-> FALSE, settled |-> {}]
    /\ txn = [i \in Sessions |-> NoTxn]
    /\ locks = [p \in Products |-> 0]

NextProducts ==
    \/ \E q \in ProductQueries : ListProducts(q)
    \/ InvalidateProductLists
    \/ \E k \in CacheKeys : ExpireProductList(k)

SpecProducts == InitProducts /\ [][NextProducts]_vars

RECURSIVE QtyFor(_, _)
\* the quantity the lines of items ask of product p, all lines together
QtyFor(items, p) ==
    IF items = <<>> THEN 0
    ELSE (IF Head(items).product_id = p THEN Head(items).quantity ELSE 0)
         + QtyFor(Tail(items), p)

\* ------------------------------------------ concurrent requests on one order
\* Two requests on the same order run together, each in its own session:
\* rollback_stock, update_status(CANCELLED) and attach_payment. A request reads
\* the order row without a lock, takes the lock of each inventory row it
\* releases, and writes what it changed at its db.commit().
Racers == {1, 2}
RacedOrder == 1
RaceKinds ==
    {[kind |-> "rollback_stock", arg |-> ""],
     [kind |-> "update_status", arg |-> "CANCELLED"],
     [kind |-> "attach_payment", arg |-> "PAID"],
     [kind |-> "attach_payment", arg |-> "FAILED"]}

RaceRequests ==
    {[pc |-> "start", kind |-> k.kind, arg |-> k.arg, seen |-> NewOrder("", <<>>),
      next |-> 1, rows |-> [p \in {} |-> NoInventory], outcome |-> ""] :
        k \in RaceKinds}

\* the orders that hold a reservation when the requests arrive: one line each,
\* all PENDING
RaceOrders ==
    UNION {[1..n -> {NewOrder(u, <<[product_id |-> ContendedProduct, quantity |-> q]>>) :
                        u \in Users, q \in 1..MaxQty}] : n \in 1..MaxOrders}

RECURSIVE AllQuantity(_, _, _)
\* the quantity of product p in the orders 1..o
AllQuantity(ords, p, o) ==
    IF o = 0 THEN 0 ELSE AllQuantity(ords, p, o - 1) + QtyFor(ords[o].items, p)

InitRace ==
    /\ orders \in RaceOrders
    /\ \E n \in StockValues :
          /\ AllQuantity(orders, ContendedProduct, Len(orders)) <= n
          /\ inventory = [p \in Products |->
                [exists |-> TRUE, total_stock |-> n,
                 available_stock |-> n - AllQuantity(orders, p, Len(orders)),
                 reserved_stock |-> AllQuantity(orders, p, Len(orders))]]
    /\ last = Result("init", "", "", "")
    /\ session = [i \in Sessions |-> NoRequest]
    /\ row_lock = 0
    /\ lock_order = <<>>
    /\ priced = NotPriced
    /\ cache = [u \in Users |-> NoEntry]
    /\ redis_up = TRUE
    /\ history = [on |-> FALSE, settled |-> {}]
    /\ txn \in {t \in [Sessions -> RaceRequests \cup {NoTxn}] :
                    \A i \in Sessions : t[i] = NoTxn <=> i \notin Racers}
    /\ locks = [p \in Products |-> 0]

\* whether the request, with the order as it read it, goes on to release
Releases(t) ==
    IF t.kind = "rollback_stock" THEN ~t.seen.stock_rollback_done
    ELSE /\ ~(t.kind = "attach_payment" /\ Upper(t.arg) = "PAID")
         /\ t.seen.status \in {"PENDING", "CANCELLED", "EXPIRED"}

\* the request's read of the order row (inventory_services.py 200,
\* order_services.py 183-188 and 217-222): a plain SELECT of the committed row
ReadOrder(i) ==
    /\ txn[i].pc = "start"
    /\ LET t == [txn[i] EXCEPT !.seen = orders[RacedOrder]]
       IN txn' = [txn EXCEPT ![i] =
                    IF t.kind = "rollback_stock" /\ ~Releases(t)
                    THEN [t EXCEPT !.pc = "done", !.outcome = "already done"]
                    ELSE IF Releases(t) THEN [t EXCEPT !.pc = "lines"]
                    ELSE [t EXCEPT !.pc = "ready"]]
    /\ UNCHANGED <<inventory, orders, last, session, row_lock, lock_order,
                   priced, cache, redis_up, history, locks>>

\* one turn of the release loop (inventory_services.py 233-262,
\* order_services.py 42-52): the row is read under its lock, as last
\* committed, and released on the session's copy
ReleaseLine(i) ==
    /\ txn[i].pc = "lines"
    /\ txn[i].next <= Len(txn[i].seen.items)
    /\ LET p == txn[i].seen.items[txn[i].next].product_id
           q == txn[i].seen.items[txn[i].next].quantity
           row == IF p \in DOMAIN txn[i].rows THEN txn[i].rows[p] ELSE inventory[p]
           new == IF txn[i].kind = "rollback_stock"
                  THEN RollbackRow(row, q) ELSE ReleaseRow(row, q)
       IN /\ locks[p] \in {0, i}
          /\ IF row.exists
             THEN /\ locks' = [locks EXCEPT ![p] = i]
                  /\ txn' = [txn EXCEPT ![i].next = @ + 1,
                                        ![i].rows = [r \in DOMAIN @ \cup {p} |->
                                                        IF r = p THEN new ELSE @[r]]]
             ELSE /\ locks' = locks
                  /\ txn' = [txn EXCEPT ![i].next = @ + 1]
    /\ UNCHANGED <<inventory, orders, last, session, row_lock, lock_order,
                   priced, cache, redis_up, history>>

\* the order row as the request writes it
WrittenOrder(t, order) ==
    IF t.kind = "rollback_stock" THEN [order EXCEPT !.stock_rollback_done = TRUE]
    ELSE IF t.kind = "update_status" THEN [order EXCEPT !.status = t.arg]
    ELSE [order EXCEPT !.status = IF Upper(t.arg) = "PAID" THEN "PAID" ELSE "CANCELLED"]

\* db.commit() (inventory_services.py 272-274, order_services.py 196-201 and
\* 240-242): the session's rows and its change of the order reach the store,
\* the locks are given up, and the order service evicts the user's order list
CommitRequest(i) ==
    /\ \/ txn[i].pc = "ready"
       \/ txn[i].pc = "lines" /\ txn[i].next > Len(txn[i].seen.items)
    /\ inventory' = [p \in DOMAIN inventory |->
                        IF p \in DOMAIN txn[i].rows THEN txn[i].rows[p] ELSE inventory[p]]
    /\ orders' = [orders EXCEPT ![RacedOrder] = WrittenOrder(txn[i], @)]
    /\ cache' = IF txn[i].kind = "rollback_stock" THEN cache
                ELSE RedisDelete(cache, redis_up, orders[RacedOrder].user_id).cache
    /\ history' = Track(history, orders')
    /\ locks' = ReleasedLocks(i)
    /\ txn' = [txn EXCEPT ![i].pc = "done", ![i].outcome = "ok"]
    /\ UNCHANGED <<last, session, row_lock, lock_order, priced, redis_up>>

NextRace ==
    \/ \E i \in Racers : ReadOrder(i)
    \/ \E i \in Racers : ReleaseLine(i)
    \/ \E i \in Racers : CommitRequest(i)

SpecRace == InitRace /\ [][NextRace]_vars

\* ------------------------------------- listing while an order is changed
\* list_user_orders requests run together with one update_status on an order
\* of the same user. A listing is three steps, the cache read, the store read
\* and the cache write; the update commits first and evicts the key after.
Listers == {1, 2}
Mutator == 3
ListRequest == [pc |-> "get", kind |-> "list_user_orders", arg |-> "", fetched |-> <<>>,
                returned |-> <<>>]
MutateRequests ==
    {[pc |-> "commit", kind |-> "update_status", arg |-> st, fetched |-> <<>>,
      returned |-> <<>>] : st \in ALLOWED_STATUSES}

InitListing ==
    /\ \E n \in 1..MaxStock, q \in 1..MaxQty, u \in Users :
          /\ q <= n
          /\ inventory = [p \in Products |->
                [exists |-> TRUE, total_stock |-> n, available_stock |-> n - q,
                 reserved_stock |-> q]]
          /\ orders = <<NewOrder(u, <<[product_id |-> ContendedProduct, quantity |-> q]>>)>>
    /\ last = Result("init", "", "", "")
    /\ session = [i \in Sessions |-> NoRequest]
    /\ row_lock = 0
    /\ lock_order = <<>>
    /\ priced = NotPriced
    /\ cache \in {[u \in Users |-> NoEntry],
                  [u \in Users |->
                     [set |-> TRUE, value |-> JsonDumps(FetchFromDb(orders, u, Len(orders)))]]}
    /\ redis_up = TRUE
    /\ history = [on |-> FALSE, settled |-> {}]
    /\ txn \in {t \in [Sessions -> {ListRequest, NoTxn} \cup MutateRequests] :
                    \A i \in Sessions :
                        /\ t[i] = ListRequest <=> i \in Listers
                        /\ t[i] \in MutateRequests <=> i = Mutator}
    /\ locks = [p \in Products |-> 0]

\* the user whose orders the requests are about
ListedUser == orders[RacedOrder].user_id

\* get_or_set_cache's read (caching_utils.py 29-34): a hit is returned
CacheRead(i) ==
    /\ txn[i].pc = "get"
    /\ txn[i].kind = "list_user_orders"
    /\ LET cached == RedisGet(cache, redis_up, ListedUser)
       IN txn' = [txn EXCEPT ![i] =
                    IF cached.found
                    THEN [@ EXCEPT !.pc = "done", !.returned = JsonLoads(cached.value)]
                    ELSE [@ EXCEPT !.pc = "fetch"]]
    /\ UNCHANGED <<inventory, orders, last, session, row_lock, lock_order,
                   priced, cache, redis_up, history, locks>>

\* fetch_fn() on a miss (caching_utils.py 37, order_services.py 159-168)
FetchOrders(i) ==
    /\ txn[i].pc = "fetch"
    /\ txn' = [txn EXCEPT ![i].pc = "setex",
                          ![i].fetched = FetchFromDb(orders, ListedUser, Len(orders))]
    /\ UNCHANGED <<inventory, orders, last, session, row_lock, lock_order,
                   priced, cache, redis_up, history, locks>>

\* redis_client.setex of what was fetched (caching_utils.py 40-45)
CacheWrite(i) ==
    /\ txn[i].pc = "setex"
    /\ cache' = RedisSetex(cache, redis_up, ListedUser, JsonDumps(txn[i].fetched)).cache
    /\ txn' = [txn EXCEPT ![i].pc = "done", ![i].returned = txn[i].fetched]
    /\ UNCHANGED <<inventory, orders, last, session, row_lock, lock_order,
                   priced, redis_up, history, locks>>

\* update_status up to its db.commit() (order_services.py 183-197)
CommitStatus(i) ==
    /\ txn[i].pc = "commit"
    /\ txn[i].kind = "update_status"
    /\ inventory' = IF txn[i].arg \in {"CANCELLED", "EXPIRED"}
                    THEN RollbackInventory(inventory, orders[RacedOrder]) ELSE inventory
    /\ orders' = [orders EXCEPT ![RacedOrder].status = txn[i].arg]
    /\ history' = Track(history, orders')
    /\ txn' = [txn EXCEPT ![i].pc = "evict"]
    /\ UNCHANGED <<last, session, row_lock, lock_order, priced, cache, redis_up, locks>>

\* redis_client.delete(f"user_orders:{order.user_id}") (order_services.py 200-201)
EvictOrderList(i) ==
    /\ txn[i].pc = "evict"
    /\ cache' = RedisDelete(cache, redis_up, ListedUser).cache
    /\ txn' = [txn EXCEPT ![i].pc = "done"]
    /\ UNCHANGED <<inventory, orders, last, session, row_lock, lock_order,
                   priced, redis_up, history, locks>>

NextListing ==
    \/ \E i \in Listers : CacheRead(i)
    \/ \E i \in Listers : FetchOrders(i)
    \/ \E i \in Listers : CacheWrite(i)
    \/ CommitStatus(Mutator)
    \/ EvictOrderList(Mutator)

SpecListing == InitListing /\ [][NextListing]_vars

\* ------------------------------------------------------------------ claims
\* rows b are rows a with the quantities of items moved from reserved_stock
\* back to available_stock
Released(a, b, items) ==
    \A p \in Products :
        b[p] = [a[p] EXCEPT !.available_stock = @ + QtyFor(items, p),
                            !.reserved_stock = @ - QtyFor(items, p)]

\* rows b are rows a with the quantities of items moved from available_stock
\* to reserved_stock
Reserved(a, b, items) ==
    \A p \in Products :
        b[p] = [a[p] EXCEPT !.available_stock = @ - QtyFor(items, p),
                            !.reserved_stock = @ + QtyFor(items, p)]

\* rows b are rows a with the quantities of items taken out of reserved_stock
\* and total_stock
Finalized(a, b, items) ==
    \A p \in Products :
        b[p] = [a[p] EXCEPT !.reserved_stock = @ - QtyFor(items, p),
                            !.total_stock = @ - QtyFor(items, p)]

\* C1: every inventory row has available_stock >= 0, reserved_stock >= 0 and
\* available_stock + reserved_stock <= total_stock, in every reachable state.
C1_StockInvariant ==
    \A p \in Products :
        inventory[p].exists =>
            /\ inventory[p].available_stock >= 0
            /\ inventory[p].reserved_stock >= 0
            /\ inventory[p].available_stock + inventory[p].reserved_stock
                  <= inventory[p].total_stock

RECURSIVE FitsInOrder(_, _, _)
\* the sessions whose request fits when the requests are served one after the
\* other in the sequence order, from its k-th on, with available units left
FitsInOrder(order, k, available) ==
    IF k > Len(order) THEN {}
    ELSE IF session[order[k]].quantity <= available
         THEN {order[k]} \cup FitsInOrder(order, k + 1,
                                    available - session[order[k]].quantity)
         ELSE FitsInOrder(order, k + 1, available)

RECURSIVE QuantityOf(_)
\* the quantities the sessions of S ask for, added up
QuantityOf(S) ==
    IF S = {} THEN 0
    ELSE LET i == CHOOSE j \in S : TRUE
         IN session[i].quantity + QuantityOf(S \ {i})

\* the sessions whose request has ended
Ended == {i \in Sessions : session[i].pc = "done"}

\* C2: of concurrent reservation requests on one product with N units
\* available, exactly those that fit in lock-acquisition order succeed, the
\* others fail with InsufficientStock, and what is reserved never exceeds N.
C2_NoOverselling ==
    LET row == inventory[ContendedProduct]
        fits == FitsInOrder(lock_order, 1, row.total_stock)
        succeeded == {i \in Ended : session[i].outcome = "ok"}
    IN /\ row.reserved_stock <= row.total_stock
       /\ row.available_stock >= 0
       /\ row.reserved_stock = QuantityOf(succeeded)
       /\ row.available_stock = row.total_stock - QuantityOf(succeeded)
       /\ \A i \in Ended :
            /\ session[i].outcome = "ok" <=> i \in fits
            /\ session[i].outcome # "ok" => session[i].outcome = "InsufficientStock"

\* C2's case: requests asking together for more than the N available have all
\* ended, some served and some refused, and the lock was not taken in the
\* order of the session numbers
C2_Witness ==
    /\ Ended = Sessions
    /\ QuantityOf(Sessions) > inventory[ContendedProduct].total_stock
    /\ \E i \in Sessions : session[i].outcome = "ok"
    /\ \E i \in Sessions : session[i].outcome = "InsufficientStock"
    /\ \E i, j \in Sessions :
            /\ session[i].kind # session[j].kind
            /\ session[i].outcome = "ok"
            /\ session[j].outcome = "ok"
    /\ lock_order[1] # 1

\* C11: with money in hundredths, every line's total_price is unit_price x
\* quantity, subtotal is the sum of the line totals, total_items the sum of
\* the quantities, tax is subtotal x 0.18 rounded half-up to the hundredth,
\* discount is 0 and grand_total = subtotal + tax - discount.
C11_OrderAmounts ==
    /\ \A k \in 1..Len(priced.lines) :
            priced.lines[k].total_price
                = priced.lines[k].unit_price * priced.lines[k].quantity
    /\ priced.subtotal = Accumulate(priced.lines, "total_price", 1)
    /\ priced.total_items = Accumulate(priced.lines, "quantity", 1)
    /\ 100 * priced.tax - 50 <= 18 * priced.subtotal
    /\ 18 * priced.subtotal < 100 * priced.tax + 50
    /\ priced.discount = 0
    /\ priced.grand_total = priced.subtotal + priced.tax - priced.discount

\* C11's case: an order of two lines whose tax falls exactly between two
\* hundredths and is rounded up
C11_Witness ==
    /\ Len(priced.lines) = 2
    /\ (18 * priced.subtotal) % 100 = 50
    /\ 100 * priced.tax = 18 * priced.subtotal + 50

\* the transitions of the order state machine
StatusEdges ==
    {<<"PENDING", "PAID">>, <<"PENDING", "CANCELLED">>, <<"PENDING", "EXPIRED">>,
     <<"PAID", "SHIPPED">>, <<"SHIPPED", "DELIVERED">>}

\* C12: over any sequence of update_status, attach_payment and
\* verify_and_capture_payment calls an order's status changes only along
\* PENDING->PAID, PENDING->CANCELLED, PENDING->EXPIRED, PAID->SHIPPED and
\* SHIPPED->DELIVERED.
C12_StatusEdges ==
    [][\A o \in 1..Len(orders) :
            orders'[o].status # orders[o].status =>
                <<orders[o].status, orders'[o].status>> \in StatusEdges
      ]_vars

\* C13: once an order has been PAID, SHIPPED or DELIVERED, no later
\* update_status or attach_payment call on it changes an inventory counter.
C13_SettledOrdersKeepStock ==
    [][\A o \in history.settled :
            (\/ \E s \in AllStatusInputs : UpdateStatus(o, s)
             \/ \E ps \in PaymentStatusInputs : AttachPayment(o, ps))
                => inventory' = inventory
      ]_vars

\* C14: update_status fails with InvalidStatus when new_status is not a
\* recognized status and with NotFound when the order does not exist, and in
\* both cases leaves the orders and every inventory counter unchanged.
C14_UpdateStatusRejects ==
    [][\A o \in OrderIds, s \in AllStatusInputs :
            (UpdateStatus(o, s) /\ (s \notin ALLOWED_STATUSES \/ o \notin 1..Len(orders))) =>
                /\ last'.err \in {"InvalidStatus", "NotFound"}
                /\ o \in 1..Len(orders) => last'.err = "InvalidStatus"
                /\ s \in ALLOWED_STATUSES => last'.err = "NotFound"
                /\ orders' = orders
                /\ inventory' = inventory
      ]_vars

\* C15: every operation that changes an order or the ledger evicts
\* user_orders:{user_id} before it returns, so that, the requests running one
\* after the other, list_user_orders returns the store's current orders of
\* the user and never a list cached before a change.
C15_ListIsCurrent ==
    [][\A u \in Users :
            ListUserOrders(u) => last'.listed = FetchFromDb(orders, u, Len(orders))
      ]_vars

\* C16: a cache failure never fails an operation: with Redis not answering,
\* update_status and attach_payment on an existing order and
\* create_order_from_cart still commit and return as they do with Redis
\* answering, no request ends with the cache's error, and list_user_orders
\* returns the store's orders.
C16_CacheFailureHarmless ==
    [][/\ last'.err # "RedisError"
       /\ ~redis_up =>
            /\ \A u \in Users :
                    ListUserOrders(u) => last'.listed = FetchFromDb(orders, u, Len(orders))
            /\ \A o \in 1..Len(orders), s \in StatusInputs :
                    UpdateStatus(o, s) => last'.err = "" /\ orders'[o].status = s
            /\ \A o \in 1..Len(orders), ps \in PaymentStatusInputs :
                    AttachPayment(o, ps) =>
                        last'.err = "" /\ orders'[o].status \in {"PAID", "CANCELLED"}
            /\ \A u \in Users :
                    (orders = <<>> /\ CreateOrderFromCart(u, SingleCart, Products)) =>
                        (last'.err = "" <=> Len(orders') = 1)
      ]_vars

\* C16's case: a request has changed an order while Redis did not answer, and
\* the list cached before it is still in Redis
C16_Witness ==
    /\ ~redis_up
    /\ last.op \in {"update_status", "attach_payment"}
    /\ last.err = ""
    /\ \E u \in Users :
            /\ cache[u].set
            /\ JsonLoads(cache[u].value) # FetchFromDb(orders, u, Len(orders))

\* the positions of the cart lines with a positive quantity
ValidPositions(c) == {i \in 1..Len(c.items) : c.items[i].quantity > 0}
\* the k-th of them
ValidPosition(c, k) ==
    CHOOSE i \in ValidPositions(c) :
        Cardinality({j \in ValidPositions(c) : j < i}) = k - 1

\* C17: a reservation for a product without inventory row fails with NotFound
\* and changes nothing, in reserve_stock and in create_order_from_cart on a
\* cart whose lines are for such products.
C17_MissingInventoryNotFound ==
    /\ \A p \in Products, q \in 1..MaxQty :
            ~inventory[p].exists =>
                /\ ReserveStockOn(inventory, p, q).err = "NotFound"
                /\ ReserveStockOn(inventory, p, q).inv = inventory
    /\ \A u \in Users, c \in Carts :
            (/\ ValidPositions(c) # {}
             /\ \A i \in ValidPositions(c) : ~inventory[c.items[i].product_id].exists) =>
                LET r == CheckoutResult(u, c, Products)
                IN /\ r.err = "NotFound"
                   /\ r.inv = inventory
                   /\ r.orders = orders

\* a request that releases the reservation of order o
IsReleaseCall(o) ==
    \/ \E s \in {"CANCELLED", "EXPIRED"} : UpdateStatus(o, s)
    \/ \E ps \in PaymentStatusInputs : Upper(ps) # "PAID" /\ AttachPayment(o, ps)
    \/ RollbackStock(o)

\* C18: no release path drives reserved_stock negative; on an order of one
\* line with quantity q that is released, reserved_stock < q sets
\* reserved_stock to 0 and credits available_stock by the prior reserved_stock,
\* and otherwise q moves from reserved_stock to available_stock.
C18_ReleaseClamps ==
    [][\A o \in 1..Len(orders) :
            IsReleaseCall(o) =>
                /\ \A p \in Products :
                        inventory[p].reserved_stock >= 0 =>
                            inventory'[p].reserved_stock >= 0
                /\ (Len(orders[o].items) = 1 /\ inventory' # inventory) =>
                        LET p == orders[o].items[1].product_id
                            q == orders[o].items[1].quantity
                            row == inventory[p]
                        IN inventory'[p] =
                            IF row.reserved_stock < q
                            THEN [row EXCEPT !.reserved_stock = 0,
                                             !.available_stock = @ + row.reserved_stock]
                            ELSE [row EXCEPT !.reserved_stock = @ - q,
                                             !.available_stock = @ + q]
      ]_vars

\* C19: rollback_stock on an existing order whose stock_rollback_done is
\* false ends with the flag true, also for an order without line items and
\* when a line's product has no inventory row: the missing rows stay missing
\* and the lines of the other products are released all the same.
C19_RollbackAlwaysFlags ==
    [][\A o \in 1..Len(orders) :
            (RollbackStock(o) /\ ~orders[o].stock_rollback_done) =>
                /\ orders'[o].stock_rollback_done
                /\ \A p \in DOMAIN inventory :
                     LET q == QtyFor(orders[o].items, p)
                     IN /\ ~inventory[p].exists => inventory'[p] = inventory[p]
                        /\ (inventory[p].exists /\ inventory[p].reserved_stock >= q) =>
                              inventory'[p] =
                                [inventory[p] EXCEPT !.available_stock = @ + q,
                                                     !.reserved_stock = @ - q]
                        /\ inventory[p].exists =>
                              /\ inventory'[p].reserved_stock >= 0
                              /\ inventory'[p].available_stock + inventory'[p].reserved_stock
                                    = inventory[p].available_stock
                                        + inventory[p].reserved_stock
      ]_vars

\* C19's case: rollback_stock has run over an order with a first line for a
\* product without inventory row and a later line for a product with one,
\* whose stock it released
C19_Witness ==
    /\ last.op = "rollback_stock"
    /\ last.skip = ""
    /\ orders[1].stock_rollback_done
    /\ Len(orders[1].items) = 2
    /\ ~inventory[orders[1].items[1].product_id].exists
    /\ inventory[orders[1].items[2].product_id].exists
    /\ inventory[orders[1].items[2].product_id].available_stock = MaxStock

\* C19's other case: rollback_stock has flagged an order without line items
C19_EmptyOrderFlagged ==
    /\ last.op = "rollback_stock"
    /\ last.skip = "no items"
    /\ orders[1].items = <<>>
    /\ orders[1].stock_rollback_done

\* C20: round trip: on any inventory row and for any quantity q <=
\* available_stock, a reserve of q followed by a release of q, with no
\* finalize in between, gives the row back as it was.
C20_ReserveReleaseRoundTrip ==
    \A p \in Products, q \in 1..MaxQty :
        (inventory[p].exists /\ q <= inventory[p].available_stock) =>
            LET reserved == ReserveStockOn(inventory, p, q)
            IN /\ reserved.err = ""
               /\ RollbackRow(reserved.inv[p], q) = inventory[p]

\* transaction i waits for a row that another transaction has locked
Waiting(i) ==
    /\ txn[i].pc = "run"
    /\ txn[i].next <= Len(txn[i].lines)
    /\ locks[NextProduct(i)] \notin {0, i}

\* C21: concurrent create_order_from_cart transactions whose carts share
\* products never deadlock: there is no set of transactions each of which
\* waits for a row locked by another one of the set, so that every
\* transaction can go on to its commit or abort.
C21_NoLockCycle ==
    \A W \in SUBSET Sessions :
        W # {} => \E i \in W : ~(Waiting(i) /\ locks[NextProduct(i)] \in W)

\* C22: update_inventory on an inventory row sets total_stock to new_total,
\* changes available_stock by exactly new_total - old total_stock and leaves
\* reserved_stock as it was, whatever the row holds and whatever new_total is.
C22_AdjustTotalByDelta ==
    [][\A p \in Products, t \in StockValues :
            (UpdateInventory(p, t) /\ inventory[p].exists) =>
                /\ inventory'[p].total_stock = t
                /\ inventory'[p].available_stock
                      = inventory[p].available_stock + (t - inventory[p].total_stock)
                /\ inventory'[p].reserved_stock = inventory[p].reserved_stock
                /\ inventory'[p].exists
      ]_vars

\* C22's case: update_inventory has lowered the total of a row that holds a
\* reservation, which only a negative delta on available_stock produces
C22_Witness ==
    /\ last.op = "update_inventory"
    /\ last.err = ""
    /\ \E p \in Products :
            /\ inventory[p].exists
            /\ inventory[p].total_stock = 0
            /\ inventory[p].reserved_stock = 1
            /\ inventory[p].available_stock = 0 - 1

\* C25: conservation: in every reachable state every inventory row has
\* available_stock + reserved_stock = total_stock exactly.
C25_Conservation ==
    \A p \in Products :
        inventory[p].exists =>
            inventory[p].available_stock + inventory[p].reserved_stock
                = inventory[p].total_stock

\* C25's case: rollback_stock has run its clamped branch: the first order, of
\* quantity 2, was rolled back when a single unit was reserved, held by the
\* second order
C25_Witness ==
    /\ last.op = "rollback_stock"
    /\ last.skip = ""
    /\ Len(orders) = 2
    /\ orders[1].stock_rollback_done
    /\ Len(orders[1].items) = 1
    /\ orders[1].items[1].quantity = 2
    /\ ~orders[2].stock_rollback_done
    /\ orders[2].status = "PENDING"
    /\ Len(orders[2].items) = 1
    /\ orders[2].items[1].quantity = 1
    /\ LET p == orders[1].items[1].product_id
       IN /\ orders[2].items[1].product_id = p
          /\ inventory[p].total_stock = 1
          /\ inventory[p].available_stock = 1
          /\ inventory[p].reserved_stock = 0

\* C23: after a successful create_order_from_cart the user's cart holds no
\* line items: the valid lines and the lines of quantity <= 0 are all deleted
\* with the order's creation; in every reachable state, for every cart the
\* call can find.
C23_CartEmptiedByCheckout ==
    \A u \in Users, c \in Carts, active \in ActiveSets :
        LET r == CheckoutResult(u, c, active)
        IN r.err = "" => r.cart.items = <<>>

\* C24: the product-list cache key tells the queries apart: two list_products
\* calls whose parameters differ never share a cache key, so list_products
\* returns, from the cache or not, the products selected for its own
\* parameters.
C24_KeyDistinguishesQueries ==
    [][\A q \in ProductQueries :
            ListProducts(q) =>
                /\ last'.listed = FetchProducts(q)
                /\ \A other \in ProductQueries :
                        CacheKey(other) = CacheKey(q) => other = q
      ]_vars

RECURSIVE OpenQuantity(_, _, _)
\* the quantity of product p in the orders 1..o that are PENDING and not
\* rolled back
OpenQuantity(ords, p, o) ==
    IF o = 0 THEN 0
    ELSE OpenQuantity(ords, p, o - 1)
         + (IF ords[o].status = "PENDING" /\ ~ords[o].stock_rollback_done
            THEN QtyFor(ords[o].items, p) ELSE 0)

\* C26: reservation accounting: in every reachable state a product's
\* reserved_stock is the sum of the line quantities of the orders that are
\* still PENDING and not rolled back, so that no release or clamp for one
\* order takes away what another open order has reserved.
C26_ReservedIsOpenOrders ==
    \A p \in Products :
        inventory[p].exists =>
            inventory[p].reserved_stock = OpenQuantity(orders, p, Len(orders))

\* every request of the race has finished
RaceOver == \A i \in Racers : txn[i].pc = "done"

\* the available_stock of product p when the requests arrived: nothing is
\* reserved or finalized while they run
AvailableAtStart(p) == inventory[p].total_stock - AllQuantity(orders, p, Len(orders))

\* a request that asks for the release of the order's reservation
IsRollbackRequest(t) ==
    t.kind = "rollback_stock" \/ (t.kind = "update_status" /\ t.arg = "CANCELLED")

\* C27: two rollback requests for the same order that run concurrently
\* release its reserved quantities at most once in total: after both have
\* finished, available_stock has grown by each line quantity once at most.
C27_ConcurrentRollbackOnce ==
    (RaceOver /\ \A i \in Racers : IsRollbackRequest(txn[i])) =>
        \A p \in Products :
            inventory[p].available_stock
                <= AvailableAtStart(p) + QtyFor(orders[RacedOrder].items, p)

\* C28: attach_payment(PAID) and a cancelling request (update_status(CANCELLED)
\* or a non-PAID attach_payment) run concurrently on the same PENDING order:
\* once both have finished, the order is PAID only if its quantities were not
\* returned to available_stock, and CANCELLED only if they were returned, once.
C28_StatusAgreesWithLedger ==
    (/\ RaceOver
     /\ \E i, j \in Racers :
            /\ txn[i].kind = "attach_payment" /\ Upper(txn[i].arg) = "PAID"
            /\ \/ txn[j].kind = "update_status" /\ txn[j].arg = "CANCELLED"
               \/ txn[j].kind = "attach_payment" /\ Upper(txn[j].arg) # "PAID") =>
        \A p \in Products :
            /\ orders[RacedOrder].status \in {"PAID", "CANCELLED"}
            /\ orders[RacedOrder].status = "PAID" =>
                    inventory[p].available_stock = AvailableAtStart(p)
            /\ orders[RacedOrder].status = "CANCELLED" =>
                    inventory[p].available_stock
                        = AvailableAtStart(p) + QtyFor(orders[RacedOrder].items, p)

RECURSIVE UnpaidQuantity(_, _, _)
\* the quantity of product p in the orders 1..o whose status is not PAID
UnpaidQuantity(ords, p, o) ==
    IF o = 0 THEN 0
    ELSE UnpaidQuantity(ords, p, o - 1)
         + (IF ords[o].status # "PAID" THEN QtyFor(ords[o].items, p) ELSE 0)

\* C29: in every reachable state no PAID order has its line quantities still
\* counted in reserved_stock: whatever path set the order to PAID has
\* finalized its stock, so reserved_stock holds quantities of orders that are
\* not PAID only.
C29_PaidOrdersNotReserved ==
    \A p \in Products :
        inventory[p].exists =>
            inventory[p].reserved_stock <= UnpaidQuantity(orders, p, Len(orders))

\* C30: list_user_orders runs concurrently with an operation that changes the
\* same user's orders: once all of them have finished, the cache entry of the
\* user is absent or holds the store's current order list, never a list read
\* before the change.
C30_NoStaleListCached ==
    (\A i \in Listers \cup {Mutator} : txn[i].pc = "done") =>
        \/ ~cache[ListedUser].set
        \/ JsonLoads(cache[ListedUser].value)
                = FetchFromDb(orders, ListedUser, Len(orders))

\* a request on order o that hands stock back to available_stock
IsReleaseStep(o) ==
    /\ \/ \E s \in StatusInputs : UpdateStatus(o, s)
       \/ \E ps \in PaymentStatusInputs : AttachPayment(o, ps)
       \/ RollbackStock(o)
    /\ \E p \in Products :
            inventory'[p].available_stock > inventory[p].available_stock

\* C3: an order's reservation is released exactly once: every request that
\* releases it finds stock_rollback_done false and leaves it true, and the
\* flag never returns to false.
C3_ReleasedExactlyOnce ==
    [][\A o \in 1..Len(orders) :
            /\ orders[o].stock_rollback_done => orders'[o].stock_rollback_done
            /\ IsReleaseStep(o) =>
                    ~orders[o].stock_rollback_done /\ orders'[o].stock_rollback_done
      ]_vars

\* C4: rollback_stock is idempotent: on every ledger state and for every
\* order id, a second call in sequence leaves the inventory rows and the
\* orders as the first call left them.
C4_RollbackIdempotent ==
    \A o \in OrderIds :
        LET once == RollbackStockOn(inventory, orders, o)
            twice == RollbackStockOn(once.inv, once.orders, o)
        IN /\ twice.inv = once.inv
           /\ twice.orders = once.orders

\* C4's case: rollback_stock called again on an order it has rolled back,
\* while stock is still reserved for another order
C4_Witness ==
    /\ last.op = "rollback_stock"
    /\ last.skip = "already done"
    /\ \E p \in Products : inventory[p].reserved_stock > 0

\* C5: update_status(order_id, "CANCELLED") on a PENDING order moves every
\* line's quantity from reserved_stock back to available_stock and leaves
\* stock_rollback_done true; repeated on the cancelled order it leaves every
\* inventory counter unchanged.
C5_CancelReleasesOnce ==
    [][\A o \in 1..Len(orders) :
            UpdateStatus(o, "CANCELLED") =>
                /\ orders[o].status = "PENDING" =>
                        /\ Released(inventory, inventory', orders[o].items)
                        /\ orders'[o].stock_rollback_done
                /\ orders[o].status = "CANCELLED" => inventory' = inventory
      ]_vars

\* C6: attach_payment with payment_status "PAID" in any letter case on a
\* PENDING order sets the status to PAID and finalizes every line:
\* reserved_stock and total_stock go down by the line quantity,
\* available_stock is unchanged.
C6_PaidFinalizes ==
    [][\A o \in 1..Len(orders), ps \in {"PAID", "paid"} :
            (AttachPayment(o, ps) /\ orders[o].status = "PENDING") =>
                /\ orders'[o].status = "PAID"
                /\ Finalized(inventory, inventory', orders[o].items)
      ]_vars

\* C7: attach_payment with a payment_status other than "PAID" moves the order
\* to CANCELLED, and for a PENDING order returns every line's quantity from
\* reserved_stock to available_stock.
C7_FailedPaymentCancels ==
    [][\A o \in 1..Len(orders) :
            AttachPayment(o, "FAILED") =>
                /\ orders'[o].status = "CANCELLED"
                /\ orders[o].status = "PENDING" =>
                        Released(inventory, inventory', orders[o].items)
      ]_vars

\* C7's case: a failed payment has been attached to a PENDING order
C7_Witness ==
    /\ last.op = "attach_payment"
    /\ last.sarg = "FAILED"
    /\ last.err = ""
    /\ last.prev = "PENDING"

\* C8: a successful create_order_from_cart adds one PENDING order with one
\* line item per valid cart line, in cart order, and moves each line's
\* quantity from available_stock to reserved_stock, total_stock unchanged;
\* in every reachable state, for every cart the call can find.
C8_CheckoutReserves ==
    \A u \in Users, c \in Carts, active \in ActiveSets :
        LET r == CheckoutResult(u, c, active)
            order == r.orders[Len(r.orders)]
        IN r.err = "" =>
                /\ Len(r.orders) = Len(orders) + 1
                /\ SubSeq(r.orders, 1, Len(orders)) = orders
                /\ order.status = "PENDING"
                /\ order.user_id = u
                /\ ~order.stock_rollback_done
                /\ Len(order.items) = Cardinality(ValidPositions(c))
                /\ \A k \in 1..Len(order.items) :
                        order.items[k] = c.items[ValidPosition(c, k)]
                /\ Reserved(inventory, r.inv, order.items)

\* C8's case: an order of two lines has been created from a cart
C8_Witness ==
    /\ last.op = "create_order_from_cart"
    /\ last.err = ""
    /\ orders # <<>>
    /\ Len(orders[Len(orders)].items) = 2
    /\ last.reserved = 2

\* the errors a cart line can raise
LineErrors == {"InsufficientStock", "AttributeError", "ProductUnavailable"}

\* C9: create_order_from_cart is all-or-nothing: when a cart line fails, at
\* any position, every inventory row is as it was before the call, no order
\* and no line item has been added, the cart keeps its lines, and the error
\* raised is the failing line's.
C9_CheckoutAllOrNothing ==
    \A u \in Users, c \in Carts, active \in ActiveSets :
        LET r == CheckoutResult(u, c, active)
        IN r.err # "" =>
                /\ r.inv = inventory
                /\ r.orders = orders
                /\ r.cart = c
                /\ r.err \in LineErrors \cup {"EmptyCart"}
                /\ r.err = "ProductUnavailable" =>
                        \E i \in ValidPositions(c) : c.items[i].product_id \notin active
                /\ r.err = "AttributeError" =>
                        \E i \in ValidPositions(c) :
                            ~inventory[c.items[i].product_id].exists
                /\ r.err = "InsufficientStock" =>
                        \E p \in Products :
                            inventory[p].available_stock
                                < QtyFor(SelectSeq(c.items, LAMBDA l : l.quantity > 0), p)
                /\ r.err = "EmptyCart" => ValidPositions(c) = {}

\* C9's case: the second line of a cart failed after the first was reserved
C9_Witness ==
    /\ last.op = "create_order_from_cart"
    /\ last.err \in LineErrors
    /\ last.reserved = 1

\* C10: create_order_from_cart never turns a cart line with quantity <= 0
\* into an order line item or a reservation; with no cart, or with every line
\* at quantity <= 0, it fails with EmptyCart, adds no order and changes no
\* inventory counter.
C10_NonPositiveLinesExcluded ==
    \A u \in Users, c \in Carts, active \in ActiveSets :
        LET r == CheckoutResult(u, c, active)
            positive == SelectSeq(c.items, LAMBDA l : l.quantity > 0)
        IN /\ \A o \in 1..Len(r.orders) :
                \A k \in 1..Len(r.orders[o].items) :
                    r.orders[o].items[k].quantity > 0
           /\ r.err = "" => Reserved(inventory, r.inv, positive)
           /\ (~c.exists \/ \A i \in 1..Len(c.items) : c.items[i].quantity <= 0) =>
                /\ r.err = "EmptyCart"
                /\ r.orders = orders
                /\ r.inv = inventory

\* C10's case: an order has been created from a cart that also held lines of
\* quantity <= 0, which stay out of the order
C10_Witness ==
    /\ last.op = "create_order_from_cart"
    /\ last.err = ""
    /\ last.left > 0

\* C10's other case: a cart holding only lines of quantity <= 0 was refused
C10_EmptyCartReached ==
    /\ last.op = "create_order_from_cart"
    /\ last.err = "EmptyCart"
    /\ last.has_cart
    /\ last.left > 0
====
